---------------------------- MODULE Spec2Model ----------------------------
(***************************************************************************)
(* Model of plugins/connection/httpapi.py: the Connection class of the     *)
(* ansible.netcommon httpapi connection plugin.                            *)
(*                                                                         *)
(* One Connection object is modelled.  Its public methods are called one   *)
(* at a time by a caller (pc = "idle"); send is split at the points where  *)
(* it calls out (ensure_connect, open_url, handle_httperror, update_auth)  *)
(* because its retry is a recursive call that need not terminate.          *)
(* The platform handler (httpapi plugin), the HTTP client (open_url) and   *)
(* the plugin loader are external: every outcome they can produce is a     *)
(* nondeterministic choice.                                                *)
(***************************************************************************)
EXTENDS Integers, FiniteSets, Sequences, TLC

(***************************************************************************)
(* Bounds of the model.                                                    *)
(***************************************************************************)
\* Largest explicit retries argument a caller passes to send.
MaxRetries == 2
\* Largest response body, in bytes.
MaxBody == 1
\* Attempts after which an unbounded retry chain is no longer followed.
MaxAttempts == MaxRetries + 3

(***************************************************************************)
(* Values.                                                                 *)
(***************************************************************************)
HdrNames == {"Authorization", "Cookie"}
HdrVals == {"s", "t"}
Absent == "absent"
\* A header mapping (a Python dict name -> value); Absent marks a missing key.
Mappings == [HdrNames -> HdrVals \cup {Absent}]
EmptyMap == [k \in HdrNames |-> Absent]

\* A Python value that is either None or a dict.
None == [isNone |-> TRUE, map |-> EmptyMap]
Dict(m) == [isNone |-> FALSE, map |-> m]
OptMappings == {None} \cup {Dict(m) : m \in Mappings}

\* Python truthiness of None / a dict: None and {} are false.
Truthy(v) == ~v.isNone /\ v.map # EmptyMap

\* Python's `a or b`.
PyOr(a, b) == IF Truthy(a) THEN a ELSE b

\* Mutant of UpdateHeaders: the caller's header wins on a clash.
UpdateHeadersCallerWins(headers, auth) ==
    [k \in HdrNames |-> IF headers[k] # Absent THEN headers[k] ELSE auth[k]]

\* dict(caller headers) followed by headers.update(auth): auth wins on a clash.
UpdateHeaders(headers, auth) ==
    [k \in HdrNames |-> IF auth[k] # Absent THEN auth[k] ELSE headers[k]]

\* Every key of m is in headers with m's value.
Includes(headers, m) == \A k \in HdrNames : m[k] # Absent => headers[k] = m[k]

\* The retries argument of send: unspecified (None) or an integer.
RetriesNone == [given |-> FALSE, n |-> 0]
Retries(n) == [given |-> TRUE, n |-> n]
RetriesArgs == {RetriesNone} \cup {Retries(n) : n \in 0..MaxRetries}

(***************************************************************************)
(* Inputs and outcomes of the external collaborators.                      *)
(***************************************************************************)
\* Token header sets a platform handler produces (login, update_auth, refresh).
TokenMaps ==
    {[EmptyMap EXCEPT !["Authorization"] = "s"],
     [EmptyMap EXCEPT !["Cookie"] = "t"]}
\* Values of the session_key option: unset, an empty dict, a key.
SessionKeys == {None, Dict(EmptyMap), Dict([EmptyMap EXCEPT !["Authorization"] = "s"])}
\* The headers entry of the caller's **kwargs ({} when not passed).
CallerHeaders ==
    {EmptyMap, [EmptyMap EXCEPT !["Authorization"] = "t"]}
\* Platform types: "ios" has an httpapi plugin, "bogus" has none, "None" is unset.
PlatformTypes == {"None", "ios", "bogus"}
\* Values of the platform_type option.
ConfiguredTypes == {"None", "ios"}
\* The port option: unset (None) or an integer.
PortNone == [isNone |-> TRUE, n |-> 0]
Port(n) == [isNone |-> FALSE, n |-> n]
PortOptions == {PortNone} \cup {Port(n) : n \in {0, 80, 443, 8080}}
\* Python truthiness of None / an int: None and 0 are false.
PortTruthy(port) == ~port.isNone /\ port.n # 0
\* Values of the host option.
Hosts == {"10.0.0.1"}
\* What open_url does: a response, an HTTPError or a URLError.
OpenUrlResults == {"ok", "HTTPError", "URLError"}
\* What update_auth may return: None or a dict (possibly empty).
UpdateAuthReturns == {None, Dict(EmptyMap)} \cup {Dict(m) : m \in TokenMaps}

VARIABLES
    _network_os,    \* self._network_os, from the play context
    options,        \* the options read with get_option: platform_type, session_key
    _connected,     \* self._connected
    httpapi,        \* self.httpapi: "unset" (no attribute), "None" or a plugin name
    _sub_plugin,    \* self._sub_plugin's plugin name, "None" when empty
    _auth,          \* self._auth
    authBy,         \* who assigned _auth last
    pc,             \* where the call in progress stands
    frame,          \* the send call in progress
    lastReq,        \* the last HTTP request the send in progress handed to open_url
    last,           \* the last completed load_platform_plugins, _connect, close
                    \* or send, and how it ended
    called          \* what the load_platform_plugins, transport_test or _url
                    \* call that just ended was given and produced

vars == <<_network_os, options, _connected, httpapi, _sub_plugin, _auth, authBy,
          pc, frame, lastReq, last, called>>

(***************************************************************************)
(* Records kept for the properties: the send call in progress, its last    *)
(* HTTP request, and how the last completed call ended.                    *)
(***************************************************************************)
NoFrame ==
    [headers |-> EmptyMap, retries0 |-> RetriesNone, retries |-> RetriesNone,
     requests |-> 0, allRecoverable |-> FALSE, wasConnected |-> FALSE,
     connectRan |-> FALSE, loginCalled |-> FALSE, response |-> "none",
     outcome |-> "none", updateAuth |-> None,
     error |-> "none", is_handled |-> "none",
     updateAuthOn |-> "none", position |-> 0]

NoReq ==
    [issued |-> FALSE, headers |-> EmptyMap, basic |-> FALSE,
     connected |-> FALSE, auth |-> None, authBy |-> "none"]

NoUrl == [protocol |-> "none", host |-> "none", port |-> 0]

NoCall ==
    [op |-> "none", platform_type |-> "none", connected |-> FALSE,
     issued |-> FALSE, headers |-> EmptyMap, basic |-> FALSE,
     outcome |-> "none", use_ssl |-> FALSE, host |-> "none",
     port |-> PortNone, url |-> NoUrl]

\* How a call ended.
Ended(op, outcome, wasConnected, loginCalled, logoutCalled, updateAuth) ==
    [op |-> op, outcome |-> outcome, wasConnected |-> wasConnected,
     loginCalled |-> loginCalled, logoutCalled |-> logoutCalled,
     updateAuth |-> updateAuth]

\* send returns or raises: its frame is complete.
Done(f, outcome, updateAuth) ==
    /\ pc' = "done"
    /\ frame' = [f EXCEPT !.outcome = outcome, !.updateAuth = updateAuth]
    /\ UNCHANGED last

(***************************************************************************)
(* __init__ and load_platform_plugins.                                     *)
(***************************************************************************)
\* The httpapi plugins that exist.
Plugins == {"ios"}

\* httpapi_loader.get(platform_type, self): the plugin, or None.
httpapi_loader_get(platform_type) ==
    IF platform_type \in Plugins THEN platform_type ELSE "None"

\* __init__: _auth = None; the plugin of network_os is loaded when one is set.
\* A network_os without a plugin makes __init__ raise: no object exists then.
Init ==
    /\ _network_os \in {p \in PlatformTypes :
                            p # "None" => httpapi_loader_get(p) # "None"}
    /\ options \in [platform_type : ConfiguredTypes, session_key : SessionKeys]
    /\ _connected = FALSE
    /\ httpapi = IF _network_os # "None" THEN httpapi_loader_get(_network_os)
                 ELSE "unset"
    /\ _sub_plugin = IF _network_os # "None" THEN httpapi_loader_get(_network_os)
                     ELSE "None"
    /\ _auth = None
    /\ authBy = "__init__"
    /\ pc = "idle"
    /\ frame = NoFrame
    /\ lastReq = NoReq
    /\ last = Ended("init", "ok", FALSE, FALSE, FALSE, None)
    /\ called = NoCall

\* Mutant of PlatformType: the platform_type option is not looked at.
PlatformTypeArgOnly(arg) == arg

\* platform_type = platform_type or self.get_option("platform_type")
PlatformType(arg) == IF arg # "None" THEN arg ELSE options.platform_type

\* load_platform_plugins(platform_type=None).
load_platform_plugins(arg) ==
    /\ pc = "idle"
    /\ LET platform_type == PlatformType(arg)
           ended(outcome) == Ended("load_platform_plugins", outcome, _connected,
                                   FALSE, FALSE, None)
       IN  IF platform_type # "None"
           THEN /\ httpapi' = httpapi_loader_get(platform_type)
                /\ IF httpapi_loader_get(platform_type) # "None"
                   THEN /\ _sub_plugin' = httpapi_loader_get(platform_type)
                        /\ last' = ended("ok")
                   ELSE /\ UNCHANGED _sub_plugin
                        /\ last' = ended("LoadError")
           ELSE /\ UNCHANGED <<httpapi, _sub_plugin>>
                /\ last' = ended("ResolutionError")
    /\ called' = [NoCall EXCEPT !.op = "load_platform_plugins",
                                !.platform_type = arg]
    /\ UNCHANGED <<_network_os, options, _connected, _auth, authBy, pc, frame,
                   lastReq>>

(***************************************************************************)
(* _connect and close.                                                     *)
(***************************************************************************)
\* Mutant of UseSessionKey: the session key is never looked at.
UseSessionKeyNever == FALSE

\* get_option("session_key") as a condition.
UseSessionKey == Truthy(options.session_key)

\* What login leaves in _auth when it succeeds: a token, or nothing new.
LoginAuths == {_auth} \cup {Dict(m) : m \in TokenMaps}

\* A collaborator (login, logout, handle_httperror) leaves _auth as it was or
\* assigns one of the values in auths.
Assigns(who, auths) ==
    /\ _auth' \in auths
    /\ authBy' = IF _auth' = _auth THEN authBy ELSE who

\* Mutant of AlreadyConnected: _connect does not return early.
AlreadyConnectedNever == FALSE

\* if self.connected: return
AlreadyConnected == _connected

\* _connect.  res is how it ends, login whether it called httpapi.login.
_connect(res, login) ==
    IF AlreadyConnected
    THEN /\ res = "ok" /\ ~login
         /\ UNCHANGED <<_connected, _auth, authBy>>
    ELSE IF httpapi \notin Plugins
    THEN \* self.httpapi is missing or None: set_become cannot be called
         /\ res = "AttributeError" /\ ~login
         /\ UNCHANGED <<_connected, _auth, authBy>>
    ELSE \/ \* httpapi.set_become raises
            /\ res = "BecomeError" /\ ~login
            /\ UNCHANGED <<_connected, _auth, authBy>>
         \/ /\ _connected' = TRUE
            /\ IF UseSessionKey
               THEN /\ res = "ok" /\ ~login
                    /\ _auth' = options.session_key
                    /\ authBy' = "session_key"
               ELSE /\ login
                    /\ \/ res = "AuthenticationError" /\ UNCHANGED <<_auth, authBy>>
                       \/ res = "ok" /\ Assigns("login", LoginAuths)

ConnectResults == {"ok", "AttributeError", "BecomeError", "AuthenticationError"}

\* A direct call of _connect.
Connect ==
    /\ pc = "idle"
    /\ \E res \in ConnectResults, login \in BOOLEAN :
          /\ _connect(res, login)
          /\ last' = Ended("connect", res, _connected, login, FALSE, None)
    /\ called' = NoCall
    /\ UNCHANGED <<_network_os, options, httpapi, _sub_plugin, pc, frame, lastReq>>

\* NetworkConnectionBase.close: the lifecycle is reset to disconnected.
super_close == _connected' = FALSE

\* What the handler's logout may leave in _auth.
LogoutAuths == {_auth, None}

\* close.
Close ==
    /\ pc = "idle"
    /\ IF _connected
       THEN \/ \* logout returns
               /\ Assigns("logout", LogoutAuths)
               /\ super_close
               /\ last' = Ended("close", "ok", _connected, FALSE, TRUE, None)
            \/ \* logout raises: the exception leaves close
               /\ UNCHANGED <<_auth, authBy, _connected>>
               /\ last' = Ended("close", "LogoutError", _connected, FALSE, TRUE, None)
       ELSE /\ UNCHANGED <<_auth, authBy>>
            /\ super_close
            /\ last' = Ended("close", "ok", _connected, FALSE, FALSE, None)
    /\ called' = NoCall
    /\ UNCHANGED <<_network_os, options, httpapi, _sub_plugin, pc, frame, lastReq>>

(***************************************************************************)
(* send.                                                                   *)
(***************************************************************************)
\* The caller calls send(path, data, retries, headers=...).
Send(headers, retries) ==
    /\ pc = "idle"
    /\ pc' = "send"
    /\ frame' = [NoFrame EXCEPT !.headers = headers, !.retries0 = retries,
                                !.retries = retries, !.allRecoverable = TRUE,
                                !.wasConnected = _connected]
    /\ called' = NoCall
    /\ UNCHANGED <<_network_os, options, _connected, httpapi, _sub_plugin,
                   _auth, authBy, lastReq, last>>

\* Mutant of NeedsConnect: send is not wrapped by ensure_connect.
NeedsConnectNever == FALSE

\* The test of the ensure_connect decorator.
NeedsConnect == ~_connected

\* @ensure_connect: _connect runs before the body when not connected.  Every
\* retry enters here again, being a call of self.send.
EnsureConnect ==
    /\ pc = "send"
    /\ IF NeedsConnect
       THEN \E res \in ConnectResults, login \in BOOLEAN :
               /\ _connect(res, login)
               /\ LET f == [frame EXCEPT !.connectRan = TRUE,
                                         !.loginCalled = @ \/ login]
                  IN  IF res = "ok"
                      THEN /\ pc' = "open_url"
                           /\ frame' = f
                           /\ UNCHANGED last
                      ELSE Done([f EXCEPT !.allRecoverable = FALSE], res, None)
       ELSE /\ pc' = "open_url"
            /\ UNCHANGED <<_connected, _auth, authBy, frame, last>>
    /\ UNCHANGED <<_network_os, options, httpapi, _sub_plugin, lastReq, called>>

\* Mutant of RequestHeaders: the auth headers are left out of the request.
RequestHeadersCallerOnly(headers, auth) == headers

\* The headers of url_kwargs: the caller's, with _auth's on top when _auth is set.
RequestHeaders(headers, auth) ==
    IF Truthy(auth) THEN UpdateHeaders(headers, auth.map) ELSE headers

\* force_basic_auth, url_username, url_password are set when _auth is not.
BasicAuth(auth) == ~Truthy(auth)

\* Mutant of Caught: the first except clause catches URLError too (HTTPError
\* is a subclass of URLError).
CaughtByFirstClause(result) ==
    IF result = "ok" THEN "response" ELSE "except HTTPError"

\* try / except HTTPError / except URLError around open_url: where control goes.
Caught(result) ==
    CASE result = "ok" -> "response"
      [] result = "HTTPError" -> "except HTTPError"
      [] result = "URLError" -> "except URLError"

\* The body of send up to open_url, and what open_url does.
OpenUrl ==
    /\ pc = "open_url"
    /\ frame.requests < MaxAttempts
    /\ lastReq' = [issued |-> TRUE,
                   headers |-> RequestHeaders(frame.headers, _auth),
                   basic |-> BasicAuth(_auth),
                   connected |-> _connected,
                   auth |-> IF Truthy(_auth) THEN _auth ELSE None,
                   authBy |-> authBy]
    /\ \E result \in OpenUrlResults :
          LET f == [frame EXCEPT !.requests = @ + 1, !.is_handled = "none",
                                 !.error = IF result = "ok" THEN "none" ELSE result]
          IN  CASE Caught(result) = "response" ->
                     /\ pc' = "response"
                     /\ frame' = [f EXCEPT !.allRecoverable = FALSE,
                                           !.response = "original"]
                     /\ UNCHANGED last
                [] Caught(result) = "except HTTPError" ->
                     /\ pc' = "except"
                     /\ frame' = f
                     /\ UNCHANGED last
                [] Caught(result) = "except URLError" ->
                     \* AnsibleConnectionFailure is raised
                     Done([f EXCEPT !.allRecoverable = FALSE],
                          "ConnectionFailure", None)
    /\ UNCHANGED <<_network_os, options, _connected, httpapi, _sub_plugin, _auth,
                   authBy, called>>

\* Mutant of ShouldRetry: only `if retries:` is tested, None counts as 0.
ShouldRetryWhenTruthy(retries) == retries.given /\ retries.n # 0

\* Mutant of NextRetries: the retry is sent with retries, not retries - 1.
NextRetriesSame(retries) == retries

\* After handle_httperror returned True: is the request sent again?
ShouldRetry(retries) == ~retries.given \/ retries.n # 0

\* The retries argument of the retry.
NextRetries(retries) ==
    IF ~retries.given THEN RetriesNone ELSE Retries(retries.n - 1)

\* What handle_httperror returns: True, False or a response object.
HandledResults == {"True", "False", "response"}

\* Mutant of AfterHandled: `if is_handled:` instead of `is True`, so that a
\* response object is taken for True.
AfterHandledTruthy(is_handled, retries) ==
    IF is_handled # "False"
    THEN IF ShouldRetry(retries) THEN "retry" ELSE "raise"
    ELSE "raise"

\* Mutant of AfterHandled: the `is False` test is missing, False is taken for
\* a response.
AfterHandledNoFalse(is_handled, retries) ==
    IF is_handled = "True"
    THEN IF ShouldRetry(retries) THEN "retry" ELSE "raise"
    ELSE "response"

\* What send does with handle_httperror's answer: retry, raise, or go on with
\* the answer as the response.
AfterHandled(is_handled, retries) ==
    IF is_handled = "True"
    THEN IF ShouldRetry(retries) THEN "retry" ELSE "raise"
    ELSE IF is_handled = "False"
    THEN "raise"
    ELSE "response"

\* What handle_httperror may leave in _auth (a refreshed or a dropped token).
HandlerAuths == {_auth, None} \cup {Dict(m) : m \in TokenMaps}

\* except HTTPError: handle_httperror decides.
HandleHttpError ==
    /\ pc = "except"
    /\ Assigns("handle_httperror", HandlerAuths)
    /\ \E is_handled \in HandledResults :
          LET f == [frame EXCEPT !.is_handled = is_handled,
                                 !.allRecoverable = @ /\ is_handled = "True"]
          IN  CASE AfterHandled(is_handled, frame.retries) = "retry" ->
                     /\ pc' = "send"
                     /\ frame' = [f EXCEPT !.retries = NextRetries(frame.retries)]
                     /\ UNCHANGED last
                [] AfterHandled(is_handled, frame.retries) = "raise" ->
                     Done(f, "HTTPError", None)
                [] AfterHandled(is_handled, frame.retries) = "response" ->
                     /\ pc' = "response"
                     /\ frame' = [f EXCEPT !.response = "substitute"]
                     /\ UNCHANGED last
    /\ UNCHANGED <<_network_os, options, _connected, httpapi, _sub_plugin, lastReq,
                   called>>

\* Mutant of NewAuth: the `or self._auth` is missing.
NewAuthNoOr(returned, auth) == returned

\* self._auth = self.update_auth(response, response_buffer) or self._auth
NewAuth(returned, auth) == PyOr(returned, auth)

\* Mutant of Rewind: the seek(0) is missing.
RewindNot(position) == position

\* response_buffer.seek(0): the position of the buffer afterwards.
Rewind(position) == 0

\* The response is read, update_auth is asked, send returns.
Response ==
    /\ pc = "response"
    \* response_buffer holds the body; update_auth may leave it at any position
    /\ \E returned \in UpdateAuthReturns, position \in 0..MaxBody :
          /\ _auth' = NewAuth(returned, _auth)
          /\ authBy' = IF Truthy(returned) THEN "update_auth" ELSE authBy
          /\ Done([frame EXCEPT !.updateAuthOn = frame.response,
                                !.position = Rewind(position)],
                  "ok", returned)
    /\ UNCHANGED <<_network_os, options, _connected, httpapi, _sub_plugin, lastReq,
                   called>>

\* Control is back with the caller of send.
Return ==
    /\ pc = "done"
    /\ pc' = "idle"
    /\ frame' = NoFrame
    /\ lastReq' = NoReq
    /\ last' = Ended("send", frame.outcome, frame.wasConnected, frame.loginCalled,
                     FALSE, frame.updateAuth)
    /\ UNCHANGED <<_network_os, options, _connected, httpapi, _sub_plugin, _auth,
                   authBy, called>>

(***************************************************************************)
(* transport_test and _url.                                                *)
(***************************************************************************)
\* Mutant of TestRequest: the request is built like a request of send.
TestRequestLikeSend ==
    [headers |-> RequestHeaders(EmptyMap, _auth), basic |-> BasicAuth(_auth)]

\* open_url(self._url, timeout=connect_timeout): no headers, no credentials.
TestRequest == [headers |-> EmptyMap, basic |-> FALSE]

\* transport_test has no try/except: what open_url raises is what it raises.
transport_test ==
    /\ pc = "idle"
    /\ \E result \in OpenUrlResults :
          called' = [NoCall EXCEPT !.op = "transport_test",
                                   !.connected = _connected,
                                   !.issued = TRUE,
                                   !.headers = TestRequest.headers,
                                   !.basic = TestRequest.basic,
                                   !.outcome = result]
    /\ UNCHANGED <<_network_os, options, _connected, httpapi, _sub_plugin, _auth,
                   authBy, pc, frame, lastReq, last>>

\* The _url property.  "%s://%s:%s" % (protocol, host, port) is kept as its
\* three parts.
_url(use_ssl, host, port) ==
    LET protocol == IF use_ssl THEN "https" ELSE "http"
    IN  [protocol |-> protocol,
         host |-> host,
         port |-> IF PortTruthy(port) THEN port.n
                  ELSE IF protocol = "https" THEN 443 ELSE 80]

\* _url is read with the options use_ssl, host and port as they are then.
Url(use_ssl, host, port) ==
    /\ pc = "idle"
    /\ called' = [NoCall EXCEPT !.op = "_url", !.connected = _connected,
                                !.use_ssl = use_ssl, !.host = host, !.port = port,
                                !.url = _url(use_ssl, host, port),
                                !.outcome = "ok"]
    /\ UNCHANGED <<_network_os, options, _connected, httpapi, _sub_plugin, _auth,
                   authBy, pc, frame, lastReq, last>>

Next ==
    \/ \E arg \in PlatformTypes : load_platform_plugins(arg)
    \/ Connect
    \/ Close
    \/ \E headers \in CallerHeaders, retries \in RetriesArgs : Send(headers, retries)
    \/ EnsureConnect
    \/ OpenUrl
    \/ HandleHttpError
    \/ Response
    \/ Return
    \/ transport_test
    \/ \E use_ssl \in BOOLEAN, host \in Hosts, port \in PortOptions :
          Url(use_ssl, host, port)

Spec == Init /\ [][Next]_vars

(***************************************************************************)
(* Properties.                                                             *)
(***************************************************************************)
InSend == pc \in {"send", "open_url", "except", "response", "done"}

\* C1: send(retries=n), n >= 0, against a transport that always fails with an
\* HTTP error and a handler that always answers True: n+1 requests are made,
\* never more, and then the HTTP error is raised (one request when n = 0).
C1_BoundedRetries ==
    (InSend /\ frame.retries0.given /\ frame.allRecoverable) =>
        /\ frame.requests <= frame.retries0.n + 1
        /\ pc = "done" => /\ frame.requests = frame.retries0.n + 1
                          /\ frame.outcome = "HTTPError"

\* A send with retries > 0 has ended after retries + 1 failed attempts.
C1_Witness ==
    /\ pc = "done"
    /\ frame.retries0.given /\ frame.retries0.n > 0
    /\ frame.allRecoverable
    /\ frame.requests = frame.retries0.n + 1
    /\ frame.outcome = "HTTPError"

\* C2: send without retries, every attempt failing with an HTTP error that the
\* handler answers True: send never raises, and every retry is again a send
\* without retries.
C2_UnboundedRetries ==
    (InSend /\ ~frame.retries0.given) =>
        /\ ~frame.retries.given
        /\ pc = "done" => ~frame.allRecoverable

\* A send without retries has made more attempts than any bounded send makes.
C2_Witness ==
    /\ pc = "except"
    /\ ~frame.retries0.given
    /\ frame.allRecoverable
    /\ frame.requests > MaxRetries + 1

\* C3: when login fails in _connect, the error reaches the caller and the
\* connection is not connected afterwards.
C3_LoginFailureDisconnected ==
    /\ (pc = "idle" /\ last.op = "connect" /\ last.outcome = "AuthenticationError")
           => ~_connected
    /\ (pc = "done" /\ frame.outcome = "AuthenticationError") => ~_connected

\* C4: with a session key configured, _connect never calls login, whatever
\* calls are made, and leaves the session key in _auth.
C4_SessionKeyNoLogin ==
    Truthy(options.session_key) =>
        /\ ~last.loginCalled
        /\ ~frame.loginCalled
        /\ (pc = "idle" /\ last.op = "connect" /\ ~last.wasConnected
                /\ last.outcome = "ok") => _auth = options.session_key
        /\ (pc = "open_url" /\ frame.connectRan /\ frame.requests = 0)
               => _auth = options.session_key

\* A connection with a session key was closed and send has connected it again.
C4_Witness ==
    /\ Truthy(options.session_key)
    /\ pc = "open_url" /\ frame.connectRan /\ frame.requests = 0
    /\ last.op = "close" /\ last.wasConnected
    /\ _auth = options.session_key

\* C5: with a session key configured, every request of send carries the
\* session key as its auth headers, whatever update_auth returned on earlier
\* responses (requests whose _auth a handler hook assigned are left aside).
C5_SessionKeyVerbatim ==
    (/\ Truthy(options.session_key)
     /\ lastReq.issued
     /\ lastReq.authBy \in {"session_key", "update_auth"}) =>
        lastReq.auth = options.session_key

\* C6: after a send that succeeded and whose update_auth returned a non-empty
\* mapping, the first request of the next send carries that mapping's headers
\* and no basic-auth credentials.
C6_NextSendUsesNewAuth ==
    (/\ pc \in {"except", "response", "done"}
     /\ frame.requests = 1
     /\ last.op = "send" /\ last.outcome = "ok"
     /\ Truthy(last.updateAuth)) =>
        /\ Includes(lastReq.headers, last.updateAuth.map)
        /\ ~lastReq.basic

\* The next send passed a header that clashes with the new auth headers.
C6_Witness ==
    /\ pc \in {"except", "response"}
    /\ frame.requests = 1
    /\ last.op = "send" /\ last.outcome = "ok"
    /\ Truthy(last.updateAuth)
    /\ \E k \in HdrNames : /\ frame.headers[k] # Absent
                           /\ last.updateAuth.map[k] # Absent
                           /\ frame.headers[k] # last.updateAuth.map[k]
    /\ Includes(lastReq.headers, last.updateAuth.map)

C8_LogoutFailureSwallowed ==
    (pc = "idle" /\ last.op = "close" /\ last.wasConnected) =>
        /\ ~_connected
        /\ last.outcome = "ok"

\* C9: send on a disconnected connection runs _connect (session-key adoption
\* or login) before its first request; no request of send is issued while the
\* connection is disconnected.
C9_ConnectBeforeRequest ==
    /\ lastReq.issued => lastReq.connected
    /\ pc = "open_url" => _connected
    /\ (InSend /\ frame.requests > 0 /\ ~frame.wasConnected) =>
           /\ frame.connectRan
           /\ frame.loginCalled <=> ~Truthy(options.session_key)

\* A send called on a disconnected connection has issued a request.
C9_Witness ==
    /\ pc \in {"except", "response"}
    /\ ~frame.wasConnected /\ frame.connectRan
    /\ lastReq.issued /\ lastReq.connected

\* C10: a connected connection has a platform handler bound.
C10_ConnectedHasHandler == _connected => httpapi \in Plugins

\* C11: after close has run on a connected connection, _auth is empty.
C11_AuthClearedByClose ==
    (pc = "idle" /\ last.op = "close" /\ last.wasConnected
        /\ last.outcome = "ok") => ~Truthy(_auth)

\* C12: _connect on a connected connection returns at once: no set_become, no
\* login, _auth as it was, still connected; a send on a connected connection,
\* and every retry of a send, goes to its request without running _connect.
C12_ConnectWhenConnected ==
    /\ [][(/\ pc = "idle" /\ pc' = "idle" /\ _connected
           /\ last'.op = "connect" /\ called' = NoCall)
              => (/\ _connected'
                  /\ _auth' = _auth /\ authBy' = authBy
                  /\ last'.wasConnected
                  /\ last'.outcome = "ok" /\ ~last'.loginCalled)]_vars
    /\ [][(pc = "send" /\ _connected)
              => (/\ pc' = "open_url" /\ frame' = frame
                  /\ _connected' /\ _auth' = _auth /\ authBy' = authBy)]_vars
    /\ [](InSend /\ frame.wasConnected
              => ~frame.connectRan /\ ~frame.loginCalled)

\* _connect was called on a connected connection that holds auth headers.
C12_Witness ==
    /\ pc = "idle" /\ called = NoCall
    /\ last.op = "connect" /\ last.wasConnected /\ last.outcome = "ok"
    /\ _connected /\ Truthy(_auth)

\* C13: transport_test makes one request that carries no auth headers and no
\* basic-auth credentials, ends as open_url ended (a response, the HTTPError
\* or the URLError itself), and leaves the connection as connected or
\* disconnected as it found it.
C13_TransportTestBare ==
    (pc = "idle" /\ called.op = "transport_test") =>
        /\ called.issued
        /\ called.headers = EmptyMap
        /\ ~called.basic
        /\ called.outcome \in OpenUrlResults
        /\ _connected = called.connected
        /\ frame = NoFrame /\ lastReq = NoReq

\* transport_test ran on a disconnected connection that holds auth headers,
\* and open_url raised URLError.
C13_Witness ==
    /\ pc = "idle" /\ called.op = "transport_test"
    /\ ~called.connected /\ ~_connected
    /\ Truthy(_auth)
    /\ called.outcome = "URLError"

\* C14: load_platform_plugins raises the platform-resolution error exactly
\* when neither its argument nor the platform_type option names a type, and
\* the platform-load error exactly when the loader has no handler for the
\* type; a failed call binds no handler, a successful call binds the handler
\* of the type, and no call changes whether the connection is connected.
C14_LoadFailures ==
    /\ []((pc = "idle" /\ called.op = "load_platform_plugins") =>
            LET platform_type == IF called.platform_type # "None"
                                 THEN called.platform_type
                                 ELSE options.platform_type
            IN  /\ last.op = "load_platform_plugins"
                /\ (last.outcome = "ResolutionError") <=> (platform_type = "None")
                /\ (last.outcome = "LoadError")
                       <=> (platform_type # "None" /\ platform_type \notin Plugins)
                /\ (last.outcome = "ok") <=> (platform_type \in Plugins)
                /\ (last.outcome = "ok")
                       => (httpapi = platform_type /\ _sub_plugin = platform_type)
                /\ (last.outcome = "LoadError") => (httpapi \notin Plugins)
                /\ _connected = last.wasConnected)
    /\ [][(pc = "idle" /\ called'.op = "load_platform_plugins"
              /\ last'.outcome # "ok")
              => (/\ httpapi' \in Plugins => httpapi' = httpapi
                  /\ _sub_plugin' = _sub_plugin
                  /\ _connected' = _connected)]_vars

\* load_platform_plugins was given a type the loader does not know, on a
\* connection whose platform_type option names a known one.
C14_Witness ==
    /\ pc = "idle" /\ called.op = "load_platform_plugins"
    /\ called.platform_type = "bogus" /\ options.platform_type = "ios"
    /\ last.outcome = "LoadError"

\* C15: _url is scheme://host:port with scheme https exactly when use_ssl is
\* set, and port the port option when one is configured, otherwise 443 for
\* https and 80 for http.
C15_UrlParts ==
    (pc = "idle" /\ called.op = "_url") =>
        /\ called.url.protocol = IF called.use_ssl THEN "https" ELSE "http"
        /\ called.url.host = called.host
        /\ called.url.port = IF ~called.port.isNone THEN called.port.n
                             ELSE IF called.use_ssl THEN 443 ELSE 80
        /\ _connected = called.connected

\* C16: when handle_httperror returns False, send raises the HTTP error at
\* once, whatever retries it has left: no further request, no update_auth,
\* and no assignment to _auth by send.
C16_HandlerFalse ==
    /\ [][(pc = "except" /\ frame'.is_handled = "False")
              => (/\ pc' = "done"
                  /\ frame'.outcome = "HTTPError"
                  /\ frame'.requests = frame.requests
                  /\ frame'.retries = frame.retries
                  /\ lastReq' = lastReq
                  /\ frame'.updateAuthOn = "none"
                  /\ _auth' # _auth => authBy' = "handle_httperror")]_vars
    /\ [][(pc = "done" /\ frame.is_handled = "False")
              => (/\ pc' = "idle"
                  /\ last'.op = "send" /\ last'.outcome = "HTTPError"
                  /\ _auth' = _auth)]_vars

\* A send with retries left has ended on the handler's False.
C16_Witness ==
    /\ pc = "done"
    /\ frame.is_handled = "False"
    /\ frame.retries.given /\ frame.retries.n > 0
    /\ frame.outcome = "HTTPError"

\* C17: when handle_httperror returns a response, send does not retry and
\* goes on as after a response of open_url: update_auth is called with the
\* substitute, the buffer is rewound to position 0, and send returns.
C17_SubstituteResponse ==
    /\ [][(pc = "except" /\ frame'.is_handled = "response")
              => (/\ pc' = "response"
                  /\ frame'.response = "substitute"
                  /\ frame'.requests = frame.requests
                  /\ frame'.retries = frame.retries
                  /\ lastReq' = lastReq)]_vars
    /\ [][(pc = "response")
              => (/\ pc' = "done"
                  /\ frame'.outcome = "ok"
                  /\ frame'.response = frame.response
                  /\ frame'.updateAuthOn = frame.response
                  /\ frame'.requests = frame.requests
                  /\ frame'.position = 0)]_vars
    /\ []((pc = "done" /\ frame.response = "substitute")
              => (/\ frame.is_handled = "response"
                  /\ frame.outcome = "ok"
                  /\ frame.updateAuthOn = "substitute"
                  /\ frame.position = 0))

\* A send with retries left has returned the handler's substitute response,
\* and update_auth returned new auth headers for it.
C17_Witness ==
    /\ pc = "done"
    /\ frame.response = "substitute"
    /\ frame.retries.given /\ frame.retries.n > 0
    /\ frame.outcome = "ok"
    /\ Truthy(frame.updateAuth)

\* C18: when open_url raises URLError, send raises the connection failure at
\* once: handle_httperror is consulted for HTTP errors only, and there is no
\* retry whatever retries are left.
C18_UrlError ==
    /\ [](pc = "except" => frame.error = "HTTPError")
    /\ []((pc = "done" /\ frame.error = "URLError")
              => (/\ frame.outcome = "ConnectionFailure"
                  /\ frame.is_handled = "none"
                  /\ frame.updateAuthOn = "none"))
    /\ [][(pc = "open_url" /\ frame'.error = "URLError")
              => (/\ pc' = "done"
                  /\ frame'.outcome = "ConnectionFailure"
                  /\ frame'.requests = frame.requests + 1
                  /\ frame'.retries = frame.retries
                  /\ _auth' = _auth)]_vars

\* A send without a retries bound has ended on the URLError of its first
\* request.
C18_Witness ==
    /\ pc = "done"
    /\ ~frame.retries0.given
    /\ frame.requests = 1
    /\ frame.error = "URLError"
    /\ frame.outcome = "ConnectionFailure"

\* C19, as stated, for the first send of a connection, before which _auth is
\* the None of __init__: at the end of a successful send _auth is the mapping
\* update_auth returned if it returned one, and otherwise what it was before
\* the send.
C19_AuthAfterSend ==
    (/\ pc = "done" /\ frame.outcome = "ok"
     /\ last.op \in {"init", "load_platform_plugins"}) =>
        _auth = IF ~frame.updateAuth.isNone THEN frame.updateAuth ELSE None

\* C19: when send handles a response, _auth becomes the mapping update_auth
\* returned if it returned a non-empty one, and otherwise stays what it was
\* when update_auth was called; that step never turns a non-empty _auth into
\* an empty one.
C19_AuthAfterResponse ==
    [][(pc = "response")
          => (/\ _auth' = IF Truthy(frame'.updateAuth) THEN frame'.updateAuth
                          ELSE _auth
              /\ Truthy(_auth) => Truthy(_auth'))]_vars

\* A send has connected, and update_auth returned an empty mapping: _auth is
\* still what _connect left.
C19_Witness ==
    /\ pc = "done" /\ frame.outcome = "ok"
    /\ frame.connectRan
    /\ frame.updateAuth = Dict(EmptyMap)
    /\ Truthy(_auth)
    /\ authBy \in {"session_key", "login"}

\* C20: every attempt of a send, retries included, builds its request from
\* the _auth of that moment and the caller's headers: the auth headers when
\* _auth is non-empty, basic-auth credentials otherwise; the caller's headers
\* do not change between attempts; update_auth is not called before the
\* attempt that succeeds, and then once.
C20_RetryUsesCurrentAuth ==
    /\ []((pc = "except" \/ (pc = "response" /\ frame.response = "original")) =>
            /\ lastReq.issued
            /\ lastReq.basic = ~Truthy(_auth)
            /\ lastReq.auth = IF Truthy(_auth) THEN _auth ELSE None
            /\ \A k \in HdrNames :
                  lastReq.headers[k] =
                      IF Truthy(_auth) /\ _auth.map[k] # Absent
                      THEN _auth.map[k] ELSE frame.headers[k])
    /\ []((InSend /\ pc # "done")
              => (frame.updateAuthOn = "none" /\ frame.updateAuth = None))
    /\ [](pc = "done" => ((frame.updateAuthOn # "none") <=> (frame.outcome = "ok")))
    /\ [][(InSend /\ pc # "done")
              => (frame'.headers = frame.headers
                  /\ frame'.retries0 = frame.retries0)]_vars

\* A retry has sent the auth headers that handle_httperror had just assigned.
C20_Witness ==
    /\ pc \in {"except", "response"}
    /\ frame.requests > 1
    /\ lastReq.authBy = "handle_httperror"
    /\ Truthy(lastReq.auth)
    /\ Includes(lastReq.headers, lastReq.auth.map)

=============================================================================
